---- MODULE Spec2Model ----
(***************************************************************************)
(* LSB steganography codecs of the repository:                             *)
(*   "stag" : AIbot/stag.py   ImageSteganography (hide_text / extract_text) *)
(*   "hex1" : AIbot/hex1.py   ImageSteganography (hide_code / extract_code) *)
(*   "rgb"  : sdfbhzdf.py     RGBImageSteganography                         *)
(* Strings are sequences of code points, bit strings are sequences of 0/1,  *)
(* an image is a record with its dimensions and its raster-order samples.   *)
(***************************************************************************)
EXTENDS Integers, Sequences, FiniteSets, TLC

\* ---------------------------------------------------------------- bounds
\* number of hide/extract calls in one behaviour
MaxOps == 3

\* ------------------------------------------------------- string literals
\* "###END_OF_HIDDEN_DATA###"
DelimiterCV == <<35, 35, 35, 69, 78, 68, 95, 79, 70, 95, 72, 73, 68, 68, 69, 78, 95, 68, 65, 84, 65, 35, 35, 35>>

\* "###END###"
DelimiterRGB == <<35, 35, 35, 69, 78, 68, 35, 35, 35>>

\* "No hidden text found or delimiter not detected"
NoTextFound == <<78, 111, 32, 104, 105, 100, 100, 101, 110, 32, 116, 101, 120, 116, 32, 102, 111, 117, 110, 100, 32, 111, 114, 32, 100, 101, 108, 105, 109, 105, 116, 101, 114, 32, 110, 111, 116, 32, 100, 101, 116, 101, 99, 116, 101, 100>>

\* "No hidden data found or delimiter not detected"
NoDataFound == <<78, 111, 32, 104, 105, 100, 100, 101, 110, 32, 100, 97, 116, 97, 32, 102, 111, 117, 110, 100, 32, 111, 114, 32, 100, 101, 108, 105, 109, 105, 116, 101, 114, 32, 110, 111, 116, 32, 100, 101, 116, 101, 99, 116, 101, 100>>

\* "No hidden message found."
NoMessageFound == <<78, 111, 32, 104, 105, 100, 100, 101, 110, 32, 109, 101, 115, 115, 97, 103, 101, 32, 102, 111, 117, 110, 100, 46>>

\* "Invalid image file '"
InvalidImagePrefix == <<73, 110, 118, 97, 108, 105, 100, 32, 105, 109, 97, 103, 101, 32, 102, 105, 108, 101, 32, 39>>

Variants == {"stag", "hex1", "rgb"}

Paths == {"a.png", "b.png", "c.txt"}

PathChars(p) ==
    IF p = "a.png" THEN <<97, 46, 112, 110, 103>>
    ELSE IF p = "b.png" THEN <<98, 46, 112, 110, 103>>
    ELSE <<99, 46, 116, 120, 116>>

\* self.delimiter of the running script
delimiter(v) == IF v = "rgb" THEN DelimiterRGB ELSE DelimiterCV

\* the string the extractor returns on its "nothing found" branch
NoHiddenData(v) ==
    IF v = "stag" THEN NoTextFound
    ELSE IF v = "hex1" THEN NoDataFound
    ELSE NoMessageFound

\* ---------------------------------------------------------- Python values
PyBool(b) == [type |-> "bool", b |-> b, s |-> <<>>]
PyNone == [type |-> "none", b |-> FALSE, s |-> <<>>]
PyStr(s) == [type |-> "str", b |-> FALSE, s |-> s]

\* ------------------------------------------------------------- bit codec
Min(S) == CHOOSE x \in S : \A y \in S : x <= y

RECURSIVE bin(_)
\* binary digits of n, most significant first, no padding
bin(n) == IF n < 2 THEN <<n>> ELSE bin(n \div 2) \o <<n % 2>>

\* format(n, '08b'): zero-padded to a MINIMUM width of 8, wider if n > 255
format08b(n) ==
    LET d == bin(n)
    IN  IF Len(d) >= 8 THEN d ELSE [i \in 1..(8 - Len(d)) |-> 0] \o d

RECURSIVE string_to_binary(_)
string_to_binary(text) ==
    IF text = <<>> THEN <<>>
    ELSE format08b(Head(text)) \o string_to_binary(Tail(text))

RECURSIVE int2(_)
\* int(byte, 2) for a non-empty bit string
int2(byte) ==
    IF Len(byte) = 0 THEN 0
    ELSE 2 * int2(SubSeq(byte, 1, Len(byte) - 1)) + byte[Len(byte)]

binary_to_string(binary) ==
    LET n == Len(binary) - (Len(binary) % 8)
    IN  [k \in 1..(n \div 8) |-> int2(SubSeq(binary, 8 * (k - 1) + 1, 8 * k))]

\* str.find: lowest index (0-based) of sub in s, or -1
find(s, sub) ==
    LET hits == {i \in 0..(Len(s) - Len(sub)) : SubSeq(s, i + 1, i + Len(sub)) = sub}
    IN  IF hits = {} THEN -1 ELSE Min(hits)

\* ''.join(str(pixel & 1) for pixel in img.ravel())
lsb_stream(samples) == [i \in 1..Len(samples) |-> samples[i] % 2]

\* sample | bit: the mask that clears the old low bit is forgotten
set_lsb_or(sample, bit) == IF sample % 2 = 1 THEN sample ELSE sample + bit

\* (sample & 0xFE) | bit for an unsigned 8-bit sample and a bit
set_lsb(sample, bit) == (sample - (sample % 2)) + bit

\* flat[:n] = (flat[:n] & 0xFE) | bits   (the rgb script does it in a loop)
embed(samples, bits) ==
    [i \in 1..Len(samples) |->
        IF i <= Len(bits) THEN set_lsb(samples[i], bits[i]) ELSE samples[i]]

\* ------------------------------------------------------------ carriers
NoFile == [kind |-> "missing", h |-> 0, w |-> 0, samples |-> <<>>]
Corrupt == [kind |-> "corrupt", h |-> 0, w |-> 0, samples |-> <<>>]
Image(h, w, samples) == [kind |-> "image", h |-> h, w |-> w, samples |-> samples]

\* create_sample_image: pixel (i, j) = [255*i/height, 255*j/width, 255*(i+j)/(height+width)]
Gradient(h, w) ==
    Image(h, w,
        [n \in 1..(h * w * 3) |->
            LET px == (n - 1) \div 3
                c == (n - 1) % 3
                i == px \div w
                j == px % w
            IN  IF c = 0 THEN (255 * i) \div h
                ELSE IF c = 1 THEN (255 * j) \div w
                ELSE (255 * (i + j)) \div (h + w)])

\* an image whose samples all have the value val
Solid(h, w, val) == Image(h, w, [n \in 1..(h * w * 3) |-> val])

\* (height, width) of the carriers the scripts are run on
Dims(v) ==
    IF v = "rgb" THEN {<<2, 2>>, <<4, 6>>, <<1, 27>>, <<5, 8>>}
    ELSE {<<2, 2>>, <<8, 8>>, <<1, 67>>, <<1, 120>>}

Carriers(v) ==
    {Gradient(d[1], d[2]) : d \in Dims(v)} \cup {Solid(d[1], d[2], 255) : d \in Dims(v)}

\* the delimiter without its last three characters: followed by the appended
\* delimiter it forms an occurrence of the delimiter at position 0
Overlap(v) == SubSeq(delimiter(v), 1, Len(delimiter(v)) - 3)

\* a text of 50 characters, longer than any carrier here can hold
Long == [i \in 1..50 |-> 65]

\* texts the scripts are asked to hide
Payloads(v) == {<<>>, <<255>>, <<72, 35>>, <<256>>, Overlap(v), Long}

\* str.endswith(('.png', '.jpg', '.jpeg')) / an extension the image writer knows
ImageExt(p) == p \in {"a.png", "b.png"}

\* ----------------------------------------------------------------- state
VARIABLES
    variant,      \* which script is running
    files,        \* the file system: path -> file content
    pc,           \* position of the running call
    op,           \* "hide" or "extract" (the current or the last call)
    image_path,   \* argument
    text,         \* argument of hide
    output_path,  \* argument of hide
    img,          \* the carrier as loaded
    binary_data,  \* framed bit string (hide) or LSB stream (extract)
    encoded_img,  \* the samples being written (hide)
    ret,          \* value returned to the caller
    cause,        \* why the call failed: "none", "load", "capacity", "save"
    found,        \* extract: the delimiter branch was taken
    printed,      \* last diagnostic message: kind and the figures it carries
    steps,        \* steps the current call has executed, in order
    nops,         \* completed calls
    prev,         \* op, path, ret and cause of the call before the current one
    hidden        \* path -> the text the last successful hide wrote there, if any

vars == <<variant, files, pc, op, image_path, text, output_path, img, binary_data,
          encoded_img, ret, cause, found, printed, steps, nops, prev, hidden>>

NoMsg == [kind |-> "none", required |-> 0, available |-> 0]
NoText == [set |-> FALSE, text |-> <<>>]
NoPrev == [op |-> "none", path |-> "a.png", ret |-> PyNone, cause |-> "none"]

Init ==
    /\ variant \in Variants
    /\ \E c \in Carriers(variant) :
           files = [p \in Paths |-> IF p = "a.png" THEN c ELSE IF p = "b.png" THEN NoFile ELSE Corrupt]
    /\ pc = "idle"
    /\ op = "none"
    /\ image_path = "a.png"
    /\ text = <<>>
    /\ output_path = "a.png"
    /\ img = NoFile
    /\ binary_data = <<>>
    /\ encoded_img = <<>>
    /\ ret = PyNone
    /\ cause = "none"
    /\ found = FALSE
    /\ printed = NoMsg
    /\ steps = <<>>
    /\ nops = 0
    /\ prev = NoPrev
    /\ hidden = [p \in Paths |-> NoText]

\* img.size (cv2) / width * height * 3 (rgb)
capacity(v, im) == IF v = "rgb" THEN im.w * im.h * 3 ELSE Len(im.samples)

\* os.path.isfile + cv2.imread is not None  /  validate_image
loadable(v, p) ==
    IF v = "rgb" THEN files[p].kind # "missing" /\ ImageExt(p) /\ files[p].kind = "image"
    ELSE files[p].kind # "missing" /\ files[p].kind = "image"

\* ------------------------------------------------------------------ hide
\* the caller invokes hide_text_in_image / hide_code_in_image
HideCall(p, t, o) ==
    /\ pc = "idle"
    /\ nops < MaxOps
    /\ pc' = "load"
    /\ op' = "hide"
    /\ image_path' = p
    /\ text' = t
    /\ output_path' = o
    /\ prev' = [op |-> op, path |-> image_path, ret |-> ret, cause |-> cause]
    /\ ret' = PyNone
    /\ cause' = "none"
    /\ found' = FALSE
    /\ printed' = NoMsg
    /\ steps' = <<>>
    /\ UNCHANGED <<variant, files, img, binary_data, encoded_img, nops, hidden>>

HideLoad ==
    /\ pc = "load"
    /\ op = "hide"
    /\ steps' = Append(steps, "load")
    /\ IF loadable(variant, image_path)
       THEN /\ img' = files[image_path]
            /\ pc' = "validate"
            /\ UNCHANGED <<ret, cause, printed>>
       ELSE /\ ret' = PyBool(FALSE)
            /\ cause' = "load"
            /\ printed' = [kind |-> "load", required |-> 0, available |-> 0]
            /\ pc' = "done"
            /\ UNCHANGED img
    /\ UNCHANGED <<variant, files, op, image_path, text, output_path, binary_data,
                   encoded_img, found, nops, prev, hidden>>

\* data_length >= total_pixels: an exact fit is rejected
exceeds_ge(data_length, total) == data_length >= total

\* data_length > total_pixels
exceeds(data_length, total) == data_length > total

\* the capacity failure is reported but the call does not return
HideValidate_fallthrough ==
    /\ pc = "validate"
    /\ steps' = Append(steps, "validate")
    /\ binary_data' = string_to_binary(text \o delimiter(variant))
    /\ IF exceeds(Len(binary_data'), capacity(variant, img))
       THEN /\ ret' = PyBool(FALSE)
            /\ cause' = "capacity"
            /\ printed' = [kind |-> "capacity", required |-> Len(binary_data'),
                           available |-> capacity(variant, img)]
       ELSE UNCHANGED <<ret, cause, printed>>
    /\ pc' = "embed"
    /\ UNCHANGED <<variant, files, op, image_path, text, output_path, img,
                   encoded_img, found, nops, prev, hidden>>

HideValidate ==
    /\ pc = "validate"
    /\ steps' = Append(steps, "validate")
    /\ binary_data' = string_to_binary(text \o delimiter(variant))
    /\ IF exceeds(Len(binary_data'), capacity(variant, img))
       THEN /\ ret' = PyBool(FALSE)
            /\ cause' = "capacity"
            /\ printed' = [kind |-> "capacity", required |-> Len(binary_data'),
                           available |-> capacity(variant, img)]
            /\ pc' = "done"
       ELSE /\ pc' = "embed"
            /\ UNCHANGED <<ret, cause, printed>>
    /\ UNCHANGED <<variant, files, op, image_path, text, output_path, img,
                   encoded_img, found, nops, prev, hidden>>

HideEmbed ==
    /\ pc = "embed"
    /\ steps' = Append(steps, "embed")
    /\ encoded_img' = embed(img.samples, binary_data)
    /\ pc' = "save"
    /\ UNCHANGED <<variant, files, op, image_path, text, output_path, img,
                   binary_data, ret, cause, found, printed, nops, prev, hidden>>

\* cv2.imwrite / Image.save; writable: whether the file system accepts the write
HideSave(writable) ==
    /\ pc = "save"
    /\ steps' = Append(steps, "save")
    /\ pc' = "done"
    /\ IF ImageExt(output_path) /\ writable
       THEN /\ files' = [files EXCEPT ![output_path] = Image(img.h, img.w, encoded_img)]
            /\ hidden' = [hidden EXCEPT ![output_path] = [set |-> TRUE, text |-> text]]
            /\ ret' = PyBool(TRUE)
            /\ printed' = [kind |-> "hidden", required |-> Len(binary_data), available |-> 0]
            /\ UNCHANGED cause
       ELSE /\ ret' = PyBool(FALSE)
            /\ cause' = "save"
            /\ printed' = [kind |-> "save", required |-> 0, available |-> 0]
            /\ UNCHANGED <<files, hidden>>
    /\ UNCHANGED <<variant, op, image_path, text, output_path, img, binary_data,
                   encoded_img, found, nops, prev>>

\* --------------------------------------------------------------- extract
\* the caller invokes extract_text_from_image / extract_code_from_image
ExtractCall(p) ==
    /\ pc = "idle"
    /\ nops < MaxOps
    /\ pc' = "load"
    /\ op' = "extract"
    /\ image_path' = p
    /\ prev' = [op |-> op, path |-> image_path, ret |-> ret, cause |-> cause]
    /\ ret' = PyNone
    /\ cause' = "none"
    /\ found' = FALSE
    /\ printed' = NoMsg
    /\ steps' = <<>>
    /\ UNCHANGED <<variant, files, text, output_path, img, binary_data, encoded_img, nops, hidden>>

ExtractLoad ==
    /\ pc = "load"
    /\ op = "extract"
    /\ steps' = Append(steps, "load")
    /\ IF loadable(variant, image_path)
       THEN /\ img' = files[image_path]
            /\ pc' = "scan"
            /\ UNCHANGED <<ret, cause, printed>>
       ELSE /\ ret' = IF variant = "rgb"
                      THEN PyStr(InvalidImagePrefix \o PathChars(image_path) \o <<39>>)
                      ELSE PyNone
            /\ cause' = "load"
            /\ printed' = [kind |-> "load", required |-> 0, available |-> 0]
            /\ pc' = "done"
            /\ UNCHANGED img
    /\ UNCHANGED <<variant, files, op, image_path, text, output_path, binary_data,
                   encoded_img, found, nops, prev, hidden>>

\* stag/hex1: decode every complete byte, then search the decoded text
scan_cv(bits, delim, nothing) ==
    LET extracted_text == binary_to_string(bits)
        delimiter_pos == find(extracted_text, delim)
    IN  [found |-> delimiter_pos # -1,
         ret |-> IF delimiter_pos # -1
                 THEN PyStr(SubSeq(extracted_text, 1, delimiter_pos))
                 ELSE PyStr(nothing)]

\* rgb: for i in range(0, len, 8): break on the delimiter's bits at i, else
\* append chr(int(binary_data[i:i+8], 2))
rgb_message(bits, delimiter_bits) ==
    LET n == Len(bits)
        groups == (n + 7) \div 8
        brk == {k \in 0..(groups - 1) :
                   /\ 8 * k + Len(delimiter_bits) <= n
                   /\ SubSeq(bits, 8 * k + 1, 8 * k + Len(delimiter_bits)) = delimiter_bits}
        stop == IF brk = {} THEN groups ELSE Min(brk)
    IN  [found |-> brk # {},
         message |-> [k \in 1..stop |->
                         int2(SubSeq(bits, 8 * (k - 1) + 1,
                                     IF 8 * k <= n THEN 8 * k ELSE n))]]

\* the value extract returns for a loaded carrier, and whether the delimiter was seen
scan(v, samples) ==
    IF v = "rgb"
    THEN LET r == rgb_message(lsb_stream(samples), string_to_binary(delimiter(v)))
         IN  [found |-> r.found,
              ret |-> IF r.message # <<>> THEN PyStr(r.message) ELSE PyStr(NoHiddenData(v))]
    ELSE scan_cv(lsb_stream(samples), delimiter(v), NoHiddenData(v))

\* a destructive read: the low bits are cleared as they are read
extract_clears(f) == [f EXCEPT !.samples = [i \in 1..Len(@) |-> @[i] - (@[i] % 2)]]

\* what extract leaves in the carrier file: nothing is written
extract_writes(f) == f

ExtractScan ==
    /\ pc = "scan"
    /\ steps' = Append(steps, "scan")
    /\ binary_data' = lsb_stream(img.samples)
    /\ found' = scan(variant, img.samples).found
    /\ ret' = scan(variant, img.samples).ret
    /\ files' = [files EXCEPT ![image_path] = extract_writes(@)]
    /\ pc' = "done"
    /\ UNCHANGED <<variant, op, image_path, text, output_path, img, encoded_img,
                   cause, printed, nops, prev, hidden>>

\* the call returns to its caller; the locals are dropped
Return ==
    /\ pc = "done"
    /\ pc' = "idle"
    /\ nops' = nops + 1
    /\ text' = <<>>
    /\ output_path' = "a.png"
    /\ img' = NoFile
    /\ binary_data' = <<>>
    /\ encoded_img' = <<>>
    /\ steps' = <<>>
    /\ printed' = NoMsg
    /\ found' = FALSE
    /\ prev' = NoPrev
    /\ UNCHANGED <<variant, files, op, image_path, ret, cause, hidden>>

Next ==
    \/ \E p \in Paths, t \in Payloads(variant), o \in Paths : HideCall(p, t, o)
    \/ HideLoad
    \/ HideValidate
    \/ HideEmbed
    \/ \E writable \in BOOLEAN : HideSave(writable)
    \/ \E p \in Paths : ExtractCall(p)
    \/ ExtractLoad
    \/ ExtractScan
    \/ Return

Spec == Init /\ [][Next]_vars

\* ================================================================ claims
HideDone == pc = "done" /\ op = "hide"
ExtractDone == pc = "done" /\ op = "extract"

\* every character fits one byte
InRange(t) == \A i \in 1..Len(t) : t[i] <= 255

\* 8 x (len(payload) + len(delimiter))
framed_len(t) == 8 * (Len(t) + Len(delimiter(variant)))

\* C1: round trip - extracting from a carrier that a successful hide of an
\* in-range payload wrote returns exactly that payload.
ClaimC1 ==
    (ExtractDone /\ cause = "none" /\ hidden[image_path].set
                 /\ InRange(hidden[image_path].text))
        => ret = PyStr(hidden[image_path].text)

\* C2: capacity boundary - for an in-range payload and a loaded carrier, a
\* framed length up to and including the capacity passes the check (and the
\* call returns True with the embedded output on disk unless the save fails);
\* a framed length above the capacity fails as a capacity failure reporting
\* required and available bits, before any sample is written, in memory or
\* on disk.
TheoremC2 ==
    (HideDone /\ cause # "load" /\ InRange(text)) =>
        /\ framed_len(text) <= capacity(variant, img) =>
               /\ cause \in {"none", "save"}
               /\ cause = "none" =>
                      /\ ret = PyBool(TRUE)
                      /\ files[output_path].samples = encoded_img
                      /\ lsb_stream(SubSeq(encoded_img, 1, framed_len(text)))
                             = string_to_binary(text \o delimiter(variant))
        /\ framed_len(text) > capacity(variant, img) =>
               /\ cause = "capacity"
               /\ ret = PyBool(FALSE)
               /\ printed = [kind |-> "capacity", required |-> framed_len(text),
                             available |-> capacity(variant, img)]
               /\ steps = <<"load", "validate">>
               /\ encoded_img = <<>>
               /\ files[image_path] = img

\* an in-range payload that fills the carrier exactly was hidden
WitnessC2 ==
    /\ HideDone
    /\ InRange(text)
    /\ framed_len(text) = capacity(variant, img)
    /\ ret = PyBool(TRUE)

\* C3: after a successful hide of n framed bits the output has as many samples
\* (and the same height and width) as the carrier; sample i <= n keeps bits
\* 1-7 and has framed bit i as its low bit; sample i > n is unchanged.
TheoremC3 ==
    (HideDone /\ cause = "none") =>
        LET out == files[output_path]
            n == Len(binary_data)
        IN  /\ out.kind = "image"
            /\ out.h = img.h
            /\ out.w = img.w
            /\ Len(out.samples) = Len(img.samples)
            /\ \A i \in 1..Len(out.samples) :
                   IF i <= n
                   THEN /\ out.samples[i] \div 2 = img.samples[i] \div 2
                        /\ out.samples[i] % 2 = binary_data[i]
                   ELSE out.samples[i] = img.samples[i]

\* a hide succeeded, changed a low bit and left samples beyond the frame
WitnessC3 ==
    /\ HideDone
    /\ cause = "none"
    /\ Len(binary_data) < Len(img.samples)
    /\ files[output_path].samples # img.samples

\* C4: no-data case - extract of a loaded carrier that no hide wrote and in
\* which the delimiter is not found returns the NoHiddenData result.
ClaimC4 ==
    (ExtractDone /\ cause = "none" /\ ~hidden[image_path].set /\ ~found)
        => ret = PyStr(NoHiddenData(variant))

\* C5: the NoHiddenData result is never what extract returns when it found
\* the delimiter.
ClaimC5 ==
    (ExtractDone /\ cause = "none" /\ found) => ret # PyStr(NoHiddenData(variant))

\* C6: no step of a hide call changes the file at the source image path.
ClaimC6 ==
    [][(op = "hide" /\ pc # "idle") => files'[image_path] = files[image_path]]_vars

\* C7: a payload with a code point above 255 fails with an encoding error
\* before anything is embedded, and every framed bit string that is embedded
\* has 8 x (payload length + delimiter length) bits.
ClaimC7 ==
    /\ (HideDone /\ cause # "load" /\ ~InRange(text)) =>
           (cause = "encoding" /\ ret = PyBool(FALSE) /\ steps = <<"load", "validate">>)
    /\ (op = "hide" /\ encoded_img # <<>>) => Len(binary_data) = framed_len(text)

\* C8: the value a failed call returns identifies the kind of failure: two
\* consecutive calls of the same operation that fail for different reasons
\* return different values.
ClaimC8 ==
    (/\ pc = "done"
     /\ cause # "none"
     /\ prev.op = op
     /\ prev.cause # "none"
     /\ prev.cause # cause) => ret # prev.ret

\* C9: extract is read-only and repeatable - no step of an extract call changes
\* any file, and an extract of an embedded carrier that directly follows an
\* extract of the same path returns the same value.
TheoremC9 ==
    /\ []((/\ ExtractDone
           /\ cause = "none"
           /\ prev.op = "extract"
           /\ prev.path = image_path
           /\ prev.cause = "none") => ret = prev.ret)
    /\ [][(op = "extract" /\ pc # "idle") => files' = files]_vars

\* the second of two consecutive extracts of an embedded carrier has returned
WitnessC9 ==
    /\ ExtractDone
    /\ cause = "none"
    /\ prev.op = "extract"
    /\ prev.path = image_path
    /\ prev.cause = "none"
    /\ hidden[image_path].set
    /\ found

\* s is a prefix of t
IsPrefix(s, t) == Len(s) <= Len(t) /\ s = SubSeq(t, 1, Len(s))

\* C10: a hide call runs load, validate, embed, save in this order; save runs
\* only after the capacity check passed and every framed bit is in the buffer;
\* files change only in the save step; a call that fails at load or at the
\* capacity check never reaches save.
TheoremC10 ==
    /\ [](op = "hide" =>
            /\ IsPrefix(steps, <<"load", "validate", "embed", "save">>)
            /\ (pc = "save" \/ (Len(steps) = 4)) =>
                   /\ Len(binary_data) <= capacity(variant, img)
                   /\ Len(binary_data) <= Len(encoded_img)
                   /\ \A i \in 1..Len(binary_data) : encoded_img[i] % 2 = binary_data[i]
            /\ (pc = "done" /\ cause \in {"load", "capacity"}) => Len(steps) < 3)
    /\ [][(op = "hide" /\ files' # files) =>
            (pc = "save" /\ steps = <<"load", "validate", "embed">>)]_vars

\* a hide call ran all four steps and wrote its output
WitnessC10 ==
    /\ HideDone
    /\ steps = <<"load", "validate", "embed", "save">>
    /\ ret = PyBool(TRUE)

\* 0-based index of the first occurrence of the delimiter in payload + delimiter
first_delimiter(t) == find(t \o delimiter(variant), delimiter(variant))

\* C11: delimiter collision - when an in-range payload followed by the
\* appended delimiter contains the delimiter before the appended one, extract
\* of the carrier a hide of that payload wrote returns exactly the characters
\* before that first occurrence.
ClaimC11 ==
    (/\ ExtractDone
     /\ cause = "none"
     /\ hidden[image_path].set
     /\ InRange(hidden[image_path].text)
     /\ first_delimiter(hidden[image_path].text) < Len(hidden[image_path].text))
        => /\ found
           /\ ret = PyStr(SubSeq(hidden[image_path].text, 1,
                                 first_delimiter(hidden[image_path].text)))

\* C12: trailing bits that do not fill a group of 8 are discarded - a decoded
\* result of extract never has more characters than floor(sample count / 8).
ClaimC12 ==
    (ExtractDone /\ cause = "none" /\ ret # PyStr(NoHiddenData(variant)))
        => Len(ret.s) <= Len(img.samples) \div 8

\* C13: last embed wins - extract of a file whose last writer is a successful
\* hide (on a fresh carrier or on the output of earlier hides) returns that
\* hide's payload, if the payload is in range and the first delimiter in
\* payload + delimiter is the appended one.
ClaimC13 ==
    (/\ ExtractDone
     /\ cause = "none"
     /\ hidden[image_path].set
     /\ InRange(hidden[image_path].text)
     /\ first_delimiter(hidden[image_path].text) = Len(hidden[image_path].text))
        => ret = PyStr(hidden[image_path].text)

====
